---------------------------- MODULE Spec2Model ----------------------------
(***************************************************************************)
(* xmlbufrw: detection of the character encoding of an XML byte stream     *)
(* (src/src/enc_detect.rs) and the transcoding, end-of-line normalizing    *)
(* buffered reader built on it (src/src/lib.rs).                           *)
(*                                                                         *)
(* Bytes are naturals 0..255, text is a sequence of Unicode code points,   *)
(* a Rust String is the sequence of code points it holds (its len() is     *)
(* the length of its UTF-8 encoding).                                      *)
(***************************************************************************)
EXTENDS Integers, Sequences, FiniteSets, TLC

Min(a, b) == IF a <= b THEN a ELSE b

Max(a, b) == IF a >= b THEN a ELSE b

\* seq[from..] of Rust, 0-based `from`
Drop(s, n) == SubSeq(s, n + 1, Len(s))

Take(s, n) == SubSeq(s, 1, Min(n, Len(s)))

EndsWith(s, suffix) ==
    /\ Len(s) >= Len(suffix)
    /\ SubSeq(s, Len(s) - Len(suffix) + 1, Len(s)) = suffix

----------------------------------------------------------------------------
(* Characters the code names.                                              *)

CR == 13

LF == 10

NEL == 133

LS == 8232

\* "<?xml "
XmlDeclPrefix == <<60, 63, 120, 109, 108, 32>>

\* "?>"
XmlDeclEnd == <<63, 62>>

\* "encoding"
EncodingToken == <<101, 110, 99, 111, 100, 105, 110, 103>>

\* char::is_whitespace: the Unicode White_Space property
IsWhitespace(c) ==
    \/ c \in 9..13
    \/ c \in {32, 133, 160, 5760, 8232, 8233, 8239, 8287, 12288}
    \/ c \in 8192..8202

\* str::to_lowercase on the ASCII range (labels and names are ASCII)
LowerChar(c) == IF c \in 65..90 THEN c + 32 ELSE c

Lower(s) == [i \in 1..Len(s) |-> LowerChar(s[i])]

----------------------------------------------------------------------------
(* The codecs.  A decode returns [status, chars, rest]: the characters     *)
(* decoded, and the bytes of a trailing incomplete sequence (rest); status *)
(* is "malformed" as soon as a byte cannot continue a well-formed          *)
(* sequence.                                                               *)

\* length of the UTF-8 sequence a lead byte announces, 0 for an invalid lead
Utf8SeqLen(b) ==
    IF b < 128 THEN 1
    ELSE IF b \in 194..223 THEN 2
    ELSE IF b \in 224..239 THEN 3
    ELSE IF b \in 240..244 THEN 4
    ELSE 0

\* the k-th byte (k >= 2) of a sequence with this lead
Utf8ContOk(lead, k, b) ==
    IF k = 2 /\ lead = 224 THEN b \in 160..191
    ELSE IF k = 2 /\ lead = 237 THEN b \in 128..159
    ELSE IF k = 2 /\ lead = 240 THEN b \in 144..191
    ELSE IF k = 2 /\ lead = 244 THEN b \in 128..143
    ELSE b \in 128..191

Utf8Value(bytes, i, n) ==
    IF n = 1 THEN bytes[i]
    ELSE IF n = 2 THEN (bytes[i] - 192) * 64 + (bytes[i + 1] - 128)
    ELSE IF n = 3 THEN (bytes[i] - 224) * 4096 + (bytes[i + 1] - 128) * 64
                       + (bytes[i + 2] - 128)
    ELSE (bytes[i] - 240) * 262144 + (bytes[i + 1] - 128) * 4096
         + (bytes[i + 2] - 128) * 64 + (bytes[i + 3] - 128)

RECURSIVE Utf8DecodeFrom(_, _, _)
Utf8DecodeFrom(bytes, i, acc) ==
    IF i > Len(bytes) THEN [status |-> "ok", chars |-> acc, rest |-> <<>>]
    ELSE LET n == Utf8SeqLen(bytes[i])
             have == Min(n, Len(bytes) - i + 1)
         IN  IF n = 0 \/ \E k \in 2..have : ~Utf8ContOk(bytes[i], k, bytes[i + k - 1])
             THEN [status |-> "malformed", chars |-> acc, rest |-> <<>>]
             ELSE IF have < n
             THEN [status |-> "ok", chars |-> acc, rest |-> Drop(bytes, i - 1)]
             ELSE Utf8DecodeFrom(bytes, i + n, Append(acc, Utf8Value(bytes, i, n)))

Utf16Unit(bytes, i, le) ==
    IF le THEN bytes[i] + 256 * bytes[i + 1] ELSE 256 * bytes[i] + bytes[i + 1]

RECURSIVE Utf16DecodeFrom(_, _, _, _)
Utf16DecodeFrom(bytes, i, le, acc) ==
    LET left == Len(bytes) - i + 1 IN
    IF left = 0 THEN [status |-> "ok", chars |-> acc, rest |-> <<>>]
    ELSE IF left = 1 THEN [status |-> "ok", chars |-> acc, rest |-> Drop(bytes, i - 1)]
    ELSE LET u == Utf16Unit(bytes, i, le) IN
         IF u \in 56320..57343
         THEN [status |-> "malformed", chars |-> acc, rest |-> <<>>]
         ELSE IF u \in 55296..56319
         THEN IF left < 4
              THEN [status |-> "ok", chars |-> acc, rest |-> Drop(bytes, i - 1)]
              ELSE LET v == Utf16Unit(bytes, i + 2, le) IN
                   IF v \in 56320..57343
                   THEN Utf16DecodeFrom(bytes, i + 4, le,
                            Append(acc, 65536 + (u - 55296) * 1024 + (v - 56320)))
                   ELSE [status |-> "malformed", chars |-> acc, rest |-> <<>>]
         ELSE Utf16DecodeFrom(bytes, i + 2, le, Append(acc, u))

\* windows-1252: the code points of the bytes 0x80..0x9F; every other byte
\* is its own code point
Windows1252High ==
    <<8364, 129, 8218, 402, 8222, 8230, 8224, 8225, 710, 8240, 352, 8249, 338, 141, 381, 143,
      144, 8216, 8217, 8220, 8221, 8226, 8211, 8212, 732, 8482, 353, 8250, 339, 157, 382, 376>>

Windows1252Char(b) == IF b \in 128..159 THEN Windows1252High[b - 127] ELSE b

\* a single-byte decoder: no byte is ill-formed and none is left undecoded
Windows1252Decode(bytes) ==
    [status |-> "ok", chars |-> [i \in 1..Len(bytes) |-> Windows1252Char(bytes[i])],
     rest |-> <<>>]

\* the decoder of an encoding name, fed `bytes` from a clean state
DecodeBytes(name, bytes) ==
    IF name = "utf-16le" THEN Utf16DecodeFrom(bytes, 1, TRUE, <<>>)
    ELSE IF name = "utf-16be" THEN Utf16DecodeFrom(bytes, 1, FALSE, <<>>)
    ELSE IF name = "windows-1252" THEN Windows1252Decode(bytes)
    ELSE Utf8DecodeFrom(bytes, 1, <<>>)

Utf8EncodeChar(c) ==
    IF c < 128 THEN <<c>>
    ELSE IF c < 2048 THEN <<192 + (c \div 64), 128 + (c % 64)>>
    ELSE IF c < 65536
    THEN <<224 + (c \div 4096), 128 + ((c \div 64) % 64), 128 + (c % 64)>>
    ELSE <<240 + (c \div 262144), 128 + ((c \div 4096) % 64),
           128 + ((c \div 64) % 64), 128 + (c % 64)>>

RECURSIVE Utf8Encode(_)
Utf8Encode(chars) ==
    IF chars = <<>> THEN <<>>
    ELSE IF Len(chars) = 1 THEN Utf8EncodeChar(chars[1])
    ELSE LET h == Len(chars) \div 2
         IN  Utf8Encode(SubSeq(chars, 1, h)) \o Utf8Encode(SubSeq(chars, h + 1, Len(chars)))

\* String::len(): the length in bytes of the UTF-8 the string holds
RECURSIVE StrLen(_)
StrLen(chars) ==
    IF chars = <<>> THEN 0
    ELSE IF Len(chars) = 1 THEN Len(Utf8EncodeChar(chars[1]))
    ELSE LET h == Len(chars) \div 2
         IN  StrLen(SubSeq(chars, 1, h)) + StrLen(SubSeq(chars, h + 1, Len(chars)))

Utf16Pair(u, le) == IF le THEN <<u % 256, u \div 256>> ELSE <<u \div 256, u % 256>>

Utf16EncodeChar(c, le) ==
    IF c < 65536 THEN Utf16Pair(c, le)
    ELSE Utf16Pair(55296 + ((c - 65536) \div 1024), le)
         \o Utf16Pair(56320 + ((c - 65536) % 1024), le)

RECURSIVE Utf16Encode(_, _)
Utf16Encode(chars, le) ==
    IF chars = <<>> THEN <<>>
    ELSE IF Len(chars) = 1 THEN Utf16EncodeChar(chars[1], le)
    ELSE LET h == Len(chars) \div 2
         IN  Utf16Encode(SubSeq(chars, 1, h), le)
             \o Utf16Encode(SubSeq(chars, h + 1, Len(chars)), le)

----------------------------------------------------------------------------
(* Encoding (enc_detect.rs): a variant name and its `definitive` flag.     *)

\* the labels the code passes as literals
Utf8Label == <<117, 116, 102, 45, 56>>

Utf16LeLabel == <<117, 116, 102, 45, 49, 54, 108, 101>>

Utf16BeLabel == <<117, 116, 102, 45, 49, 54, 98, 101>>

\* labels used by documents and callers in this model
Utf16Label == <<117, 116, 102, 45, 49, 54>>

Iso88591Label == <<105, 115, 111, 45, 56, 56, 53, 57, 45, 49>>

BogusLabel == <<98, 111, 103, 117, 115>>

\* encoding_rs::Encoding::for_label_no_replacement followed by name() and
\* to_lowercase(): the label table of the Encoding Standard, on the labels
\* this model uses.  ("ascii" and "iso-8859-1" are labels of windows-1252.)
LabelTable ==
    { <<Utf8Label, "utf-8">>,
      <<<<117, 116, 102, 56>>, "utf-8">>,
      <<Utf16Label, "utf-16le">>,
      <<Utf16LeLabel, "utf-16le">>,
      <<Utf16BeLabel, "utf-16be">>,
      <<<<97, 115, 99, 105, 105>>, "windows-1252">>,
      <<<<117, 115, 45, 97, 115, 99, 105, 105>>, "windows-1252">>,
      <<Iso88591Label, "windows-1252">>,
      <<<<108, 97, 116, 105, 110, 49>>, "windows-1252">>,
      <<<<119, 105, 110, 100, 111, 119, 115, 45, 49, 50, 53, 50>>, "windows-1252">>,
      <<<<105, 115, 111, 45, 56, 56, 53, 57, 45, 50>>, "iso-8859-2">>,
      <<<<107, 111, 105, 56, 45, 114>>, "koi8-r">>,
      <<<<109, 97, 99, 105, 110, 116, 111, 115, 104>>, "macintosh">>,
      <<<<120, 45, 109, 97, 99, 45, 114, 111, 109, 97, 110>>, "macintosh">>,
      <<<<120, 45, 109, 97, 99, 45, 99, 121, 114, 105, 108, 108, 105, 99>>, "x-mac-cyrillic">>,
      <<<<105, 98, 109, 56, 54, 54>>, "ibm866">>,
      <<<<103, 98, 107>>, "gbk">> }

\* variant of ForLabel that compares the label as it is written; C18 tells
\* it apart
ForLabelCaseSensitive(label) ==
    LET hit == {e \in LabelTable : e[1] = label}
    IN  IF hit = {} THEN "none" ELSE (CHOOSE e \in hit : TRUE)[2]

\* "none" when the label is not in the table
ForLabel(label) ==
    LET hit == {e \in LabelTable : e[1] = Lower(label)}
    IN  IF hit = {} THEN "none" ELSE (CHOOSE e \in hit : TRUE)[2]

NoEncoding == [name |-> "none", definitive |-> FALSE]

EncOk(name, is_definitive) ==
    [ok |-> TRUE, enc |-> [name |-> name, definitive |-> is_definitive], err |-> "none"]

EncErr(e) == [ok |-> FALSE, enc |-> NoEncoding, err |-> e]

NewFromName(label, is_definitive) ==
    LET n == ForLabel(label)
    IN  IF n \in {"ascii", "utf-8", "utf-16le", "utf-16be"}
        THEN EncOk(n, is_definitive)
        ELSE EncErr("UnsupportedEncoding")

\* variant of QuadRow that tries the 00-byte row before the declaration rows;
\* C11 tells it apart
QuadRowZeroRowFirst(buf) ==
    IF buf[1] = 239 /\ buf[2] = 187 /\ buf[3] = 191 THEN "bom-utf-8"
    ELSE IF buf[1] = 255 /\ buf[2] = 254 /\ buf[3] # 0 /\ buf[4] = 0 THEN "bom-utf-16le"
    ELSE IF buf[1] = 254 /\ buf[2] = 255 /\ buf[3] = 0 /\ buf[4] # 0 THEN "bom-utf-16be"
    ELSE IF \E i \in 1..4 : buf[i] = 0 THEN "multibyte"
    ELSE IF buf = <<60, 63, 120, 109>> THEN "decl-utf-8"
    ELSE "single-byte"

\* variant of QuadRow without the row for any other quad holding a 00 byte;
\* C9 tells it apart
QuadRowWithoutZeroRow(buf) ==
    IF buf[1] = 239 /\ buf[2] = 187 /\ buf[3] = 191 THEN "bom-utf-8"
    ELSE IF buf[1] = 255 /\ buf[2] = 254 /\ buf[3] # 0 /\ buf[4] = 0 THEN "bom-utf-16le"
    ELSE IF buf[1] = 254 /\ buf[2] = 255 /\ buf[3] = 0 /\ buf[4] # 0 THEN "bom-utf-16be"
    ELSE IF buf = <<60, 63, 120, 109>> THEN "decl-utf-8"
    ELSE IF buf = <<60, 0, 63, 0>> THEN "decl-utf-16le"
    ELSE IF buf = <<0, 60, 0, 63>> THEN "decl-utf-16be"
    ELSE "single-byte"

\* the arm of the match of new_from_buffer that takes the quad
QuadRow(buf) ==
    IF buf[1] = 239 /\ buf[2] = 187 /\ buf[3] = 191 THEN "bom-utf-8"
    ELSE IF buf[1] = 255 /\ buf[2] = 254 /\ buf[3] # 0 /\ buf[4] = 0 THEN "bom-utf-16le"
    ELSE IF buf[1] = 254 /\ buf[2] = 255 /\ buf[3] = 0 /\ buf[4] # 0 THEN "bom-utf-16be"
    ELSE IF buf = <<60, 63, 120, 109>> THEN "decl-utf-8"
    ELSE IF buf = <<60, 0, 63, 0>> THEN "decl-utf-16le"
    ELSE IF buf = <<0, 60, 0, 63>> THEN "decl-utf-16be"
    ELSE IF \E i \in 1..4 : buf[i] = 0 THEN "multibyte"
    ELSE "single-byte"

WithBom(r, n) == [ok |-> r.ok, enc |-> r.enc, err |-> r.err, bom |-> n]

\* variant of NewFromBuffer that takes the UTF-8 BOM for two bytes wide; C7
\* tells it apart
NewFromBufferShortBom(buf) ==
    LET row == QuadRow(buf)
    IN  IF row = "bom-utf-8" THEN WithBom(NewFromName(Utf8Label, TRUE), 2)
        ELSE IF row = "bom-utf-16le" THEN WithBom(NewFromName(Utf16LeLabel, TRUE), 2)
        ELSE IF row = "bom-utf-16be" THEN WithBom(NewFromName(Utf16BeLabel, TRUE), 2)
        ELSE IF row = "decl-utf-8" THEN WithBom(NewFromName(Utf8Label, FALSE), 0)
        ELSE IF row = "decl-utf-16le" THEN WithBom(NewFromName(Utf16LeLabel, TRUE), 0)
        ELSE IF row = "decl-utf-16be" THEN WithBom(NewFromName(Utf16BeLabel, TRUE), 0)
        ELSE IF row = "multibyte" THEN WithBom(EncErr("UnsupportedMultibyte"), 0)
        ELSE WithBom(NewFromName(Utf8Label, FALSE), 0)

\* [ok, enc, err, bom]: the guess and the number of BOM bytes in the quad
NewFromBuffer(buf) ==
    LET row == QuadRow(buf)
    IN  IF row = "bom-utf-8" THEN WithBom(NewFromName(Utf8Label, TRUE), 3)
        ELSE IF row = "bom-utf-16le" THEN WithBom(NewFromName(Utf16LeLabel, TRUE), 2)
        ELSE IF row = "bom-utf-16be" THEN WithBom(NewFromName(Utf16BeLabel, TRUE), 2)
        ELSE IF row = "decl-utf-8" THEN WithBom(NewFromName(Utf8Label, FALSE), 0)
        ELSE IF row = "decl-utf-16le" THEN WithBom(NewFromName(Utf16LeLabel, TRUE), 0)
        ELSE IF row = "decl-utf-16be" THEN WithBom(NewFromName(Utf16BeLabel, TRUE), 0)
        ELSE IF row = "multibyte" THEN WithBom(EncErr("UnsupportedMultibyte"), 0)
        ELSE WithBom(NewFromName(Utf8Label, FALSE), 0)

GetCharWidth(enc) == IF enc.name \in {"utf-16le", "utf-16be"} THEN 2 ELSE 1
\* the names the non-definitive UTF-8 guess is taken to be compatible with
SingleByteNames ==
    {"ascii", "utf-8", "ibm866", "iso-8859-1", "iso-8859-2", "iso-8859-3",
     "iso-8859-4", "iso-8859-5", "iso-8859-6", "iso-8859-7", "iso-8859-8",
     "iso-8859-10", "iso-8859-13", "iso-8859-14", "iso-8859-15", "iso-8859-16",
     "koi8-r", "koi8-u", "mac-roman", "windows-874", "windows-1250",
     "windows-1251", "windows-1252", "windows-1253", "windows-1254",
     "windows-1255", "windows-1256", "windows-1257", "windows-1258",
     "mac-cyrillic"}

\* variant of EncodingDeclIsCompatible that does not look at whether the guess
\* is definitive; C6 tells it apart
EncodingDeclIsCompatibleIgnoringBom(enc, encoding_decl_name) ==
    LET other_name == ForLabel(encoding_decl_name)
        self_name == enc.name
        res(b) == [ok |-> TRUE, val |-> b, err |-> "none"]
    IN  IF other_name = "none"
        THEN [ok |-> FALSE, val |-> FALSE, err |-> "UnrecognizedName"]
        ELSE IF self_name = other_name THEN res(TRUE)
        ELSE IF self_name \in {"utf-8", "ascii"}
        THEN res(other_name \in SingleByteNames)
        ELSE [ok |-> FALSE, val |-> FALSE, err |-> "CannotDetermine"]

\* [ok, val, err]
EncodingDeclIsCompatible(enc, encoding_decl_name) ==
    LET other_name == ForLabel(encoding_decl_name)
        self_name == enc.name
        res(b) == [ok |-> TRUE, val |-> b, err |-> "none"]
    IN  IF other_name = "none"
        THEN [ok |-> FALSE, val |-> FALSE, err |-> "UnrecognizedName"]
        ELSE IF self_name = other_name THEN res(TRUE)
        ELSE IF enc.definitive THEN res(FALSE)
        ELSE IF self_name \in {"utf-8", "ascii"}
        THEN res(other_name \in SingleByteNames)
        ELSE [ok |-> FALSE, val |-> FALSE, err |-> "CannotDetermine"]

----------------------------------------------------------------------------
(* detect_encoding_with_suggestion, step by step.                          *)

\* decoder_helper on a decoder holding `pending` undecoded bytes:
\* [ok, chars, pending]
DecoderHelper(name, pending, input) ==
    LET d == DecodeBytes(name, pending \o input)
    IN  [ok |-> d.status # "malformed", chars |-> d.chars, pending |-> d.rest]

\* prebuf.chunks(char_width)
NumChunks(buf, width) == (Len(buf) + width - 1) \div width

Chunk(buf, width, i) == SubSeq(buf, (i - 1) * width + 1, Min(i * width, Len(buf)))

\* one comparison of the closure of has_xml_decl
DeclCharMatches(decl_char, r) ==
    /\ r.ok
    /\ \/ IsWhitespace(decl_char) /\ \A k \in 1..Len(r.chars) : IsWhitespace(r.chars[k])
       \/ r.chars = <<decl_char>>

\* the zip(...).all(...) of has_xml_decl from chunk i on, the decoder holding
\* `pending`: [has, pending]
RECURSIVE HasXmlDeclFrom(_, _, _, _, _)
HasXmlDeclFrom(name, buf, width, i, pending) ==
    IF i > Min(NumChunks(buf, width), Len(XmlDeclPrefix))
    THEN [has |-> TRUE, pending |-> pending]
    ELSE LET r == DecoderHelper(name, pending, Chunk(buf, width, i))
         IN  IF DeclCharMatches(XmlDeclPrefix[i], r)
             THEN HasXmlDeclFrom(name, buf, width, i + 1, r.pending)
             ELSE [has |-> FALSE, pending |-> r.pending]

HasXmlDecl(enc, buf) == HasXmlDeclFrom(enc.name, buf, GetCharWidth(enc), 1, <<>>)
\* variant of PrebufAfterQuad that leaves the BOM in the prebuffer; C1 tells
\* it apart
PrebufKeepingBom(q, bom) == q

\* prebuf.extend(&quad[bom_bytes..])
PrebufAfterQuad(q, bom) == Drop(q, bom)

\* variant of XmlDeclPrefixWidth that asks for two characters more; C30 tells
\* it apart
XmlDeclPrefixWidthWide(enc) == (Len(XmlDeclPrefix) + 2) * GetCharWidth(enc)

\* xml_decl_prefix.len() * char_width
XmlDeclPrefixWidth(enc) == Len(XmlDeclPrefix) * GetCharWidth(enc)

\* variant of NoDeclResult that returns the suggested encoding without
\* flagging it definitive; C12 tells it apart
NoDeclResultHintNotDefinitive(enc, hint) ==
    IF enc.definitive THEN EncOk(enc.name, enc.definitive)
    ELSE IF hint.some THEN NewFromName(hint.name, FALSE)
    ELSE EncErr("NoBomNoDecl")

\* variant of NoDeclResult that looks at the suggested encoding before the
\* guess; C13 tells it apart
NoDeclResultHintFirst(enc, hint) ==
    IF hint.some THEN NewFromName(hint.name, TRUE)
    ELSE IF enc.definitive THEN EncOk(enc.name, enc.definitive)
    ELSE EncErr("NoBomNoDecl")

\* variant of NoDeclResult that falls back to the guess when there is no
\* suggested encoding; C8 tells it apart
NoDeclResultDefaulting(enc, hint) ==
    IF enc.definitive THEN EncOk(enc.name, enc.definitive)
    ELSE IF hint.some THEN NewFromName(hint.name, TRUE)
    ELSE EncOk(enc.name, FALSE)

\* the outcome when no declaration was seen
NoDeclResult(enc, hint) ==
    IF enc.definitive THEN EncOk(enc.name, enc.definitive)
    ELSE IF hint.some THEN NewFromName(hint.name, TRUE)
    ELSE EncErr("NoBomNoDecl")

\* split_whitespace, then split('='), empty tokens dropped
IsSeparator(c) == IsWhitespace(c) \/ c = 61

RECURSIVE TokensFrom(_, _, _, _)
TokensFrom(s, i, cur, acc) ==
    IF i > Len(s) THEN (IF cur = <<>> THEN acc ELSE Append(acc, cur))
    ELSE IF IsSeparator(s[i])
    THEN TokensFrom(s, i + 1, <<>>, IF cur = <<>> THEN acc ELSE Append(acc, cur))
    ELSE TokensFrom(s, i + 1, Append(cur, s[i]), acc)

XmlDeclTokens(s) == TokensFrom(s, 1, <<>>, <<>>)

\* skip_while(|t| t != "encoding"): the index of the token, 0 when absent
EncodingIndex(tokens) ==
    IF \E i \in 1..Len(tokens) : tokens[i] = EncodingToken
    THEN CHOOSE i \in 1..Len(tokens) :
             /\ tokens[i] = EncodingToken
             /\ \A j \in 1..(i - 1) : tokens[j] # EncodingToken
    ELSE 0

\* take_while(|c| c != quote)
RECURSIVE TakeUntil(_, _)
TakeUntil(s, quote) ==
    IF s = <<>> \/ Head(s) = quote THEN <<>>
    ELSE <<Head(s)>> \o TakeUntil(Tail(s), quote)

\* the first character is the quote, the name runs to its next occurrence
QuotedName(encoding_val) == TakeUntil(Tail(encoding_val), Head(encoding_val))

\* variant of ResolveDecl that turns to the suggested encoding when the
\* declaration names none; C14 tells it apart
ResolveDeclHintWhenUnnamed(decl, enc, hint) ==
    LET tokens == XmlDeclTokens(decl)
        idx == EncodingIndex(tokens)
    IN  IF idx = 0
        THEN (IF hint.some THEN NewFromName(hint.name, FALSE)
                           ELSE EncOk(enc.name, enc.definitive))
        ELSE IF idx < Len(tokens)
        THEN LET encoding_val == tokens[idx + 1] IN
             IF encoding_val = <<>> THEN EncErr("UnquotedValue")
             ELSE IF enc.definitive
             THEN LET c == EncodingDeclIsCompatible(enc, QuotedName(encoding_val)) IN
                  IF ~c.ok THEN EncErr(c.err)
                  ELSE IF ~c.val THEN EncErr("Incompatible")
                  ELSE EncOk(enc.name, enc.definitive)
             ELSE EncOk(enc.name, enc.definitive)
        ELSE IF hint.some THEN NewFromName(hint.name, FALSE)
        ELSE NewFromName(Utf8Label, FALSE)

\* the outcome once the declaration is complete
ResolveDecl(decl, enc, hint) ==
    LET tokens == XmlDeclTokens(decl)
        idx == EncodingIndex(tokens)
    IN  IF idx = 0 THEN EncOk(enc.name, enc.definitive)
        ELSE IF idx < Len(tokens)
        THEN LET encoding_val == tokens[idx + 1] IN
             IF encoding_val = <<>> THEN EncErr("UnquotedValue")
             ELSE IF enc.definitive
             THEN LET c == EncodingDeclIsCompatible(enc, QuotedName(encoding_val)) IN
                  IF ~c.ok THEN EncErr(c.err)
                  ELSE IF ~c.val THEN EncErr("Incompatible")
                  ELSE EncOk(enc.name, enc.definitive)
             ELSE EncOk(enc.name, enc.definitive)
        ELSE IF hint.some THEN NewFromName(hint.name, FALSE)
        ELSE NewFromName(Utf8Label, FALSE)

----------------------------------------------------------------------------
(* Inputs.                                                                 *)

DEFAULT_BUF_SIZE == 4096

XML_DECL_CAP == 256

\* variant of OverCap with twice the limit; C15 tells it apart
OverCapDoubled(decl) == StrLen(decl) > 2 * XML_DECL_CAP

\* variant of OverCap that never gives up; C33 tells it apart
OverCapNever(decl) == FALSE

\* xml_decl.len() > 256
OverCap(decl) == StrLen(decl) > XML_DECL_CAP

NoHint == [some |-> FALSE, name |-> <<>>]

Hint(label) == [some |-> TRUE, name |-> label]

\* what XmlReadBuffer::new passes on (lib.rs)
XmlReadBufferNew == [suggested |-> Hint(Utf8Label), capacity |-> DEFAULT_BUF_SIZE]

\* what new passes on (reader.rs)
ReaderNew == [suggested |-> NoHint, capacity |-> DEFAULT_BUF_SIZE]

Hints == {NoHint, Hint(Utf8Label), Hint(Utf16LeLabel), Hint(Iso88591Label)}

\* UTF-8
Utf8UpperLabel == <<85, 84, 70, 45, 56>>

AsciiLabel == <<97, 115, 99, 105, 105>>

\* further names a caller may suggest
MoreHints == {Hint(Utf8UpperLabel), Hint(Utf16BeLabel), Hint(AsciiLabel), Hint(BogusLabel)}

\* <?xml encoding="name"?>
DeclWithEncoding(label) ==
    XmlDeclPrefix \o EncodingToken \o <<61, 34>> \o label \o <<34>> \o XmlDeclEnd

\* <?xml v='1'?>
DeclPlain == XmlDeclPrefix \o <<118, 61, 39, 49, 39>> \o XmlDeclEnd

Decls ==
    { DeclPlain, DeclWithEncoding(Utf8Label), DeclWithEncoding(<<85, 84, 70, 45, 49, 54>>),
      DeclWithEncoding(Utf16BeLabel), DeclWithEncoding(Iso88591Label),
      DeclWithEncoding(BogusLabel) }

\* e-acute CR LF
BodyAfterDecl == <<233, CR, LF>>

\* six characters each, so that one prebuffer holds the whole text:
\* < CR CR LF LS NEL and < CR LF LF CR NEL
EolTexts == { <<60, CR, CR, LF, LS, NEL>>, <<60, CR, LF, LF, CR, NEL>> }

Texts ==
    { d \o BodyAfterDecl : d \in Decls }
    \cup { <<60, 100, 111, 99, 62, 233, LF>>,           \* <doc> e-acute LF
           <<60, 97, 47, 62, 233, CR, LF, 122>> }       \* <a/> e-acute CR LF z
    \cup EolTexts

EncodingNames == {"utf-8", "utf-16le", "utf-16be"}

BomOf(name) ==
    IF name = "utf-8" THEN <<239, 187, 191>>
    ELSE IF name = "utf-16le" THEN <<255, 254>>
    ELSE <<254, 255>>

EncodeText(name, text) ==
    IF name = "utf-8" THEN Utf8Encode(text)
    ELSE Utf16Encode(text, name = "utf-16le")

TextDocs == [text : Texts, enc : EncodingNames, bom : BOOLEAN, raw : {<<>>}]

\* < a / > z z NEL CR LS z: the three line ends come after the prebuffer
LateEolText == <<60, 97, 47, 62, 122, 122, NEL, CR, LS, 122>>

LateEolDocs == [text : {LateEolText}, enc : EncodingNames, bom : BOOLEAN, raw : {<<>>}]

\* <abcde> e-acute z in ISO-8859-1, with no declaration: ill-formed as UTF-8
Latin1Source == <<60, 97, 98, 99, 100, 101, 62, 233, 122>>

Latin1Docs == [text : {<<>>}, enc : {"none"}, bom : {FALSE}, raw : {Latin1Source}]

\* bytes tried in the third and fourth place of a quad
ProbeBytes == {0, 60, 63, 65, 254, 255}

ProbeLeads ==
    { <<255, 254>>, <<254, 255>>, <<60, 0>>, <<0, 60>>, <<60, 63>>, <<0, 0>>,
      <<239, 187>>, <<65, 65>> }

ProbeQuads ==
    { p \o <<c, d>> : p \in ProbeLeads, c \in ProbeBytes, d \in ProbeBytes }
    \cup { <<239, 187, 191, d>> : d \in ProbeBytes }
    \cup { <<60, 63, 120, 109>>, <<221, 115, 102, 115>>, <<76, 111, 167, 148>> }

\* what follows a probed quad: a\0b\0c\0d\0e\0
ProbeTail == <<97, 0, 98, 0, 99, 0, 100, 0, 101, 0>>

MaxTrunc == 5

\* sources that end early
ShortSources == { Take(<<60, 63, 120, 109, 108, 32, 63, 62>>, n) : n \in 0..MaxTrunc }

\* <?xml followed by e-acute: a processing instruction, not a declaration
ReservedPi == <<60, 63, 120, 109, 108, 195, 169, 32, 63, 62>>

RawDocs ==
    [text : {<<>>}, enc : {"none"}, bom : {FALSE},
     raw : { q \o ProbeTail : q \in ProbeQuads } \cup ShortSources \cup {ReservedPi}]

\* <?xml encoding=utf-8?>
DeclUnquoted == XmlDeclPrefix \o EncodingToken \o <<61>> \o Utf8Label \o XmlDeclEnd

\* <?xml encoding="utf-8?>
DeclUnterminated == XmlDeclPrefix \o EncodingToken \o <<61, 34>> \o Utf8Label \o XmlDeclEnd

\* declarations whose encoding value is not a quoted string
BadValueDocs ==
    [text : {DeclUnquoted, DeclUnterminated}, enc : EncodingNames, bom : BOOLEAN,
     raw : {<<>>}]

MaxOver == 2

\* <?xml aaa... of n characters, never closed
UnclosedDecl(n) == XmlDeclPrefix \o [i \in 1..(n - Len(XmlDeclPrefix)) |-> 97]

\* declarations still open after XML_DECL_CAP characters; one closes later
LongTexts ==
    { UnclosedDecl(XML_DECL_CAP + k) : k \in 1..MaxOver }
    \cup { UnclosedDecl(XML_DECL_CAP + 1) \o XmlDeclEnd }

LongDocs == [text : LongTexts, enc : {"utf-8", "utf-16le"}, bom : BOOLEAN, raw : {<<>>}]

\* <?xml, XML_DECL_CAP / 2 times e-acute, ?>: fewer characters than the cap,
\* more bytes of UTF-8
WideDecl == XmlDeclPrefix \o [i \in 1..(XML_DECL_CAP \div 2) |-> 233] \o XmlDeclEnd

\* a declaration of XML_DECL_CAP + 1 characters, the last two being ?>
ClosingAtCap == UnclosedDecl(XML_DECL_CAP - 1) \o XmlDeclEnd

CapDocs ==
    [text : {WideDecl, ClosingAtCap}, enc : {"utf-8", "utf-16le"}, bom : BOOLEAN,
     raw : {<<>>}]

SourceBytes(d) ==
    IF d.enc = "none" THEN d.raw
    ELSE (IF d.bom THEN BomOf(d.enc) ELSE <<>>) \o EncodeText(d.enc, d.text)

\* documents that are cut short below: a declaration alone, and a document
\* without one
CutTexts == { DeclPlain, <<60, 100, 111, 99, 62, 233, LF>> }

\* every proper prefix of their bytes, in each encoding, with and without BOM
CutSources ==
    UNION { LET whole == SourceBytes([text |-> x, enc |-> e, bom |-> b, raw |-> <<>>])
            IN  { Take(whole, n) : n \in 0..(Len(whole) - 1) }
            : x \in CutTexts, e \in EncodingNames, b \in BOOLEAN }

CutDocs == [text : {<<>>}, enc : {"none"}, bom : {FALSE}, raw : CutSources]

\* <?xml v='1'?><?p?>: a second ?> follows the declaration
TwoCloseText == DeclPlain \o <<60, 63, 112>> \o XmlDeclEnd

TwoCloseDocs == [text : {TwoCloseText}, enc : EncodingNames, bom : BOOLEAN, raw : {<<>>}]

----------------------------------------------------------------------------
(* State.                                                                  *)

VARIABLES
    doc,          \* the document the source holds (never read by the program)
    src,          \* the bytes of the underlying source
    pos,          \* how many of them have been read
    suggested,    \* suggested_encoding
    capacity,     \* the requested capacity
    pc,           \* start, quad, prefix, scan, detected, ready, failed; compat
                  \* and compat_done when only encoding_decl_is_compatible runs
    err,          \* the error construction ended with
    quad, guess, bom_bytes, prebuf,
    pending,      \* bytes temp_decoder holds undecoded
    xml_decl,
    encoding,     \* the encoding detection returned
    input_buf, buf_capacity, output_buf, output_pos,
    ret,          \* what the last call returned
    delivered,    \* the bytes the caller has consumed so far
    io_errors     \* how many reads of the source have returned an error

detectVars ==
    <<doc, src, pos, suggested, capacity, pc, err, quad, guess, bom_bytes, prebuf,
      pending, xml_decl, encoding>>

streamVars == <<input_buf, buf_capacity, output_buf, output_pos, ret, delivered, io_errors>>

vars == <<detectVars, streamVars>>

NoRet == [kind |-> "none", bytes |-> <<>>]

\* variant of ReadExact that takes a short read for a full one, the missing
\* bytes staying zero; C26 tells it apart
ReadExactZeroPadded(n) ==
    [ok |-> TRUE,
     bytes |-> [i \in 1..n |-> IF pos + i <= Len(src) THEN src[pos + i] ELSE 0],
     pos |-> Min(pos + n, Len(src))]

\* reader.take(n).read_exact(buf): [ok, bytes, pos]
ReadExact(n) ==
    IF Len(src) - pos >= n
    THEN [ok |-> TRUE, bytes |-> SubSeq(src, pos + 1, pos + n), pos |-> pos + n]
    ELSE [ok |-> FALSE, bytes |-> <<>>, pos |-> Len(src)]

InitDetect(docs, hints, capacities) ==
    /\ doc \in docs
    /\ src = SourceBytes(doc)
    /\ suggested \in hints
    /\ capacity \in capacities
    /\ pos = 0
    /\ pc = "start"
    /\ err = "none"
    /\ quad = <<>>
    /\ guess = NoEncoding
    /\ bom_bytes = 0
    /\ prebuf = <<>>
    /\ pending = <<>>
    /\ xml_decl = <<>>
    /\ encoding = NoEncoding
    /\ input_buf = <<>>
    /\ buf_capacity = 0
    /\ output_buf = <<>>
    /\ output_pos = 0
    /\ ret = NoRet
    /\ delivered = <<>>
    /\ io_errors = 0

\* enc_detect.rs 27-34
ReadQuad ==
    /\ pc = "start"
    /\ LET rd == ReadExact(4)
           r == IF rd.ok THEN NewFromBuffer(rd.bytes)
                ELSE [ok |-> FALSE, enc |-> NoEncoding, err |-> "UnexpectedEof", bom |-> 0]
       IN  /\ pos' = rd.pos
           /\ quad' = rd.bytes
           /\ pc' = IF r.ok THEN "quad" ELSE "failed"
           /\ err' = r.err
           /\ guess' = r.enc
           /\ bom_bytes' = r.bom
           /\ prebuf' = IF r.ok THEN PrebufAfterQuad(rd.bytes, r.bom) ELSE <<>>
    /\ UNCHANGED <<doc, src, suggested, capacity, pending, xml_decl, encoding>>
    /\ UNCHANGED streamVars

\* enc_detect.rs 36-43
ReadPrefix ==
    /\ pc = "quad"
    /\ LET rd == ReadExact(XmlDeclPrefixWidth(guess) - Len(prebuf))
       IN  /\ pos' = rd.pos
           /\ pc' = IF rd.ok THEN "prefix" ELSE "failed"
           /\ err' = IF rd.ok THEN err ELSE "UnexpectedEof"
           /\ prebuf' = prebuf \o rd.bytes
    /\ UNCHANGED <<doc, src, suggested, capacity, quad, guess, bom_bytes, pending,
                   xml_decl, encoding>>
    /\ UNCHANGED streamVars

\* enc_detect.rs 45-79
CheckDecl ==
    /\ pc = "prefix"
    /\ LET h == HasXmlDecl(guess, prebuf)
           r == NoDeclResult(guess, suggested)
           d == DecoderHelper(guess.name, h.pending, prebuf)
       IN  IF ~h.has
           THEN /\ pc' = IF r.ok THEN "detected" ELSE "failed"
                /\ err' = r.err
                /\ encoding' = r.enc
                /\ UNCHANGED <<pending, xml_decl>>
           ELSE /\ pc' = IF d.ok THEN "scan" ELSE "failed"
                /\ err' = IF d.ok THEN err ELSE "MalformedInput"
                /\ xml_decl' = d.chars
                /\ pending' = d.pending
                /\ UNCHANGED encoding
    /\ UNCHANGED <<doc, src, pos, suggested, capacity, quad, guess, bom_bytes, prebuf>>
    /\ UNCHANGED streamVars

\* enc_detect.rs 83-99: one turn of the loop
ScanChar ==
    /\ pc = "scan"
    /\ ~EndsWith(xml_decl, XmlDeclEnd)
    /\ LET rd == ReadExact(GetCharWidth(guess))
           d == DecoderHelper(guess.name, pending, rd.bytes)
           decl == xml_decl \o d.chars
       IN  /\ pos' = rd.pos
           /\ prebuf' = prebuf \o rd.bytes
           /\ IF ~rd.ok
              THEN pc' = "failed" /\ err' = "UnexpectedEof" /\ UNCHANGED <<xml_decl, pending>>
              ELSE IF ~d.ok
              THEN pc' = "failed" /\ err' = "MalformedInput" /\ UNCHANGED <<xml_decl, pending>>
              ELSE /\ xml_decl' = decl
                   /\ pending' = d.pending
                   /\ pc' = IF OverCap(decl) THEN "failed" ELSE "scan"
                   /\ err' = IF OverCap(decl) THEN "InvalidXml" ELSE err
    /\ UNCHANGED <<doc, src, suggested, capacity, quad, guess, bom_bytes, encoding>>
    /\ UNCHANGED streamVars

\* enc_detect.rs 101-147
ParseDecl ==
    /\ pc = "scan"
    /\ EndsWith(xml_decl, XmlDeclEnd)
    /\ LET r == ResolveDecl(xml_decl, guess, suggested)
       IN  /\ pc' = IF r.ok THEN "detected" ELSE "failed"
           /\ err' = r.err
           /\ encoding' = r.enc
    /\ UNCHANGED <<doc, src, pos, suggested, capacity, quad, guess, bom_bytes, prebuf,
                   pending, xml_decl>>
    /\ UNCHANGED streamVars

NextDetect == ReadQuad \/ ReadPrefix \/ CheckDecl \/ ScanChar \/ ParseDecl

SpecDetect ==
    InitDetect(TextDocs \cup RawDocs \cup LongDocs \cup BadValueDocs \cup CutDocs
                   \cup TwoCloseDocs \cup CapDocs,
               Hints \cup MoreHints, {DEFAULT_BUF_SIZE})
        /\ [][NextDetect]_vars

\* detection has not returned yet; exactly then one of its steps can be taken
Running == pc \in {"start", "quad", "prefix", "scan"}

\* detection is a function call that runs to its return: weak fairness of
\* NextDetect, WF_vars(NextDetect), written with Running for ENABLED
SpecDetectLive == SpecDetect /\ ([]<>(~Running) \/ []<><<NextDetect>>_vars)

----------------------------------------------------------------------------
(* XmlReadBuffer (lib.rs).                                                 *)

MaxAmt == 2

MaxBufLen == 2

\* variant of DecodeStrict that never fails and hands back what decoded before
\* the fault; C21 tells it apart
DecodeLossy(name, bytes) == [ok |-> TRUE, chars |-> DecodeBytes(name, bytes).chars]

\* decoder.decode(&input_buf, DecoderTrap::Strict): the whole buffer, from a
\* clean state; an incomplete sequence at its end is an error
DecodeStrict(name, bytes) ==
    LET d == DecodeBytes(name, bytes)
    IN  [ok |-> d.status = "ok" /\ d.rest = <<>>, chars |-> d.chars]

\* the filter_map of fill_buf from character i on
RECURSIVE EolFrom(_, _, _, _)
EolFrom(chars, i, seen_cr, acc) ==
    IF i > Len(chars) THEN acc
    ELSE LET x == chars[i] IN
         IF x = CR THEN EolFrom(chars, i + 1, TRUE, Append(acc, LF))
         ELSE IF x = LF \/ x = NEL
         THEN (IF seen_cr THEN EolFrom(chars, i + 1, FALSE, acc)
                          ELSE EolFrom(chars, i + 1, seen_cr, Append(acc, LF)))
         ELSE IF x = LS THEN EolFrom(chars, i + 1, FALSE, Append(acc, LF))
         ELSE EolFrom(chars, i + 1, FALSE, Append(acc, x))

\* variant of NormalizeEol that turns every CR into LF and does nothing else;
\* C19 and C34 tell it apart
NormalizeEolCrOnly(chars) == [i \in 1..Len(chars) |-> IF chars[i] = CR THEN LF ELSE chars[i]]

\* variant of NormalizeEol that starts as if a CR had just been seen; C20 and
\* C28 tell it apart
NormalizeEolPendingAtStart(chars) == EolFrom(chars, 1, TRUE, <<>>)

\* let mut seen_cr = false; ... .collect::<String>()
NormalizeEol(chars) == EolFrom(chars, 1, FALSE, <<>>)

\* what inner.read(&mut input_buf) may return: nothing at the end of the
\* source, else at least one byte and at most the buffer
ReadSizes == IF pos = Len(src) THEN {0} ELSE 1..Min(buf_capacity, Len(src) - pos)

\* variant of Refill that empties the input buffer when decoding fails, so
\* that the next fill pulls again; C29 tells it apart
RefillDroppingBadChunk(n) ==
    LET reads == input_buf = <<>>
        inb == IF reads THEN SubSeq(src, pos + 1, pos + n) ELSE input_buf
        p == IF reads THEN pos + n ELSE pos
        d == DecodeStrict(encoding.name, inb)
    IN  IF ~d.ok
        THEN [ok |-> FALSE, input_buf |-> <<>>, output_buf |-> output_buf,
              output_pos |-> output_pos, pos |-> p]
        ELSE [ok |-> TRUE, input_buf |-> <<>>,
              output_buf |-> Utf8Encode(NormalizeEol(d.chars)),
              output_pos |-> 0, pos |-> p]

\* the refill of fill_buf (lib.rs 118-166) when the read of fill_input_buf, if
\* it reads, returns n bytes: [ok, input_buf, output_buf, output_pos, pos]
Refill(n) ==
    LET reads == input_buf = <<>>
        inb == IF reads THEN SubSeq(src, pos + 1, pos + n) ELSE input_buf
        p == IF reads THEN pos + n ELSE pos
        d == DecodeStrict(encoding.name, inb)
    IN  IF ~d.ok
        THEN [ok |-> FALSE, input_buf |-> inb, output_buf |-> output_buf,
              output_pos |-> output_pos, pos |-> p]
        ELSE [ok |-> TRUE, input_buf |-> <<>>,
              output_buf |-> Utf8Encode(NormalizeEol(d.chars)),
              output_pos |-> 0, pos |-> p]

\* variant of FillStep that hands the decoded buffer back from its start while
\* text remains; C23 tells it apart
FillStepRewinding(n) ==
    IF output_pos >= Len(output_buf) THEN Refill(n)
    ELSE [ok |-> TRUE, input_buf |-> input_buf, output_buf |-> output_buf,
          output_pos |-> 0, pos |-> pos]

\* fill_buf: refills only when the decoded buffer is used up
FillStep(n) ==
    IF output_pos >= Len(output_buf) THEN Refill(n)
    ELSE [ok |-> TRUE, input_buf |-> input_buf, output_buf |-> output_buf,
          output_pos |-> output_pos, pos |-> pos]

\* variant of ConsumePos that forgets where the cursor stood; C24 tells it
\* apart
ConsumePosFromStart(at, amt, buf) == Min(amt, Len(buf))

\* the width of usize in the model: 16 bits, the narrowest Rust has; the sums
\* below behave alike at 32 and 64 bits
USIZE_BITS == 16

\* usize::MAX
UsizeMax == 2^USIZE_BITS - 1

\* a + b on usize where overflow is not checked (release builds)
WrappingAdd(a, b) == (a + b) % (UsizeMax + 1)

\* cmp::min(self.output_pos + amt, self.output_buf.len())
ConsumePos(at, amt, buf) == Min(WrappingAdd(at, amt), Len(buf))

frozenVars ==
    <<doc, src, suggested, capacity, pc, err, quad, guess, bom_bytes, prebuf, pending,
      xml_decl, encoding, buf_capacity>>

\* bound on the reads of the source that fail in one run
MaxIoErrors == 1

\* lib.rs 65-81, after detection returned Ok
Construct ==
    /\ pc = "detected"
    /\ pc' = "ready"
    /\ input_buf' = prebuf
    /\ buf_capacity' = Max(capacity, Len(prebuf))
    /\ output_buf' = <<>>
    /\ output_pos' = 0
    /\ UNCHANGED <<doc, src, pos, suggested, capacity, err, quad, guess, bom_bytes,
                   prebuf, pending, xml_decl, encoding, ret, delivered, io_errors>>

\* lib.rs 116-169
FillBuf ==
    /\ pc = "ready"
    /\ \E n \in ReadSizes :
         LET r == FillStep(n)
         IN  /\ input_buf' = r.input_buf
             /\ output_buf' = r.output_buf
             /\ output_pos' = r.output_pos
             /\ pos' = r.pos
             /\ ret' = IF r.ok
                       THEN [kind |-> "slice", bytes |-> Drop(r.output_buf, r.output_pos)]
                       ELSE [kind |-> "decode_error", bytes |-> <<>>]
    /\ UNCHANGED <<delivered, io_errors>>
    /\ UNCHANGED frozenVars

\* lib.rs 171-173
Consume ==
    /\ pc = "ready"
    /\ \E amt \in (0..MaxAmt) \cup {Len(output_buf) - output_pos} :
         LET to == ConsumePos(output_pos, amt, output_buf)
         IN  /\ output_pos' = to
             /\ delivered' = delivered \o SubSeq(output_buf, output_pos + 1, to)
    /\ ret' = NoRet
    /\ UNCHANGED <<pos, input_buf, output_buf, io_errors>>
    /\ UNCHANGED frozenVars

\* lib.rs 104-112, on a caller's buffer of buflen bytes
Read ==
    /\ pc = "ready"
    /\ \E n \in ReadSizes, buflen \in 1..MaxBufLen :
         LET r == FillStep(n)
             rem == Drop(r.output_buf, r.output_pos)
             nread == Min(buflen, Len(rem))
         IN  /\ input_buf' = r.input_buf
             /\ output_buf' = r.output_buf
             /\ pos' = r.pos
             /\ IF r.ok
                THEN /\ output_pos' = ConsumePos(r.output_pos, nread, r.output_buf)
                     /\ delivered' = delivered \o Take(rem, nread)
                     /\ ret' = [kind |-> "read", bytes |-> Take(rem, nread)]
                ELSE /\ output_pos' = r.output_pos
                     /\ delivered' = delivered
                     /\ ret' = [kind |-> "decode_error", bytes |-> <<>>]
    /\ UNCHANGED io_errors
    /\ UNCHANGED frozenVars

\* fill_buf, or read through it, when inner.read returns an error: the `?` of
\* lib.rs 92 leaves fill_input_buf after the resize of lines 89-91 and before
\* the resize of line 95
PullFails ==
    /\ pc = "ready"
    /\ output_pos >= Len(output_buf)
    /\ input_buf = <<>>
    /\ io_errors < MaxIoErrors
    /\ io_errors' = io_errors + 1
    /\ input_buf' = [i \in 1..buf_capacity |-> 0]
    /\ ret' = [kind |-> "io_error", bytes |-> <<>>]
    /\ UNCHANGED <<pos, output_buf, output_pos, delivered>>
    /\ UNCHANGED frozenVars

Next == NextDetect \/ Construct \/ FillBuf \/ Consume \/ Read

MaxCapacity == 0

Capacities == (0..MaxCapacity) \cup {DEFAULT_BUF_SIZE}

Init == InitDetect(TextDocs \cup Latin1Docs \cup LateEolDocs, Hints, Capacities)

Spec == Init /\ [][Next]_vars

\* a declaration with a body, and a document without a declaration
IoTexts == { DeclPlain \o BodyAfterDecl, <<60, 100, 111, 99, 62, 233, LF>> }

IoDocs == [text : IoTexts, enc : EncodingNames, bom : BOOLEAN, raw : {<<>>}]

NextIo == Next \/ PullFails

InitIo == InitDetect(IoDocs, Hints, 0..MaxCapacity)

\* the stream over a source whose reads may return an error
SpecIo == InitIo /\ [][NextIo]_vars

\* bound on the text delivered before a consume of an amount near usize::MAX
MaxDelivered == 4

\* lib.rs 171-173 with an amount near usize::MAX. With overflow checks (debug
\* builds) a sum past usize::MAX panics and the cursor is not assigned; without
\* them (release builds) the sum wraps before cmp::min clamps it
ConsumeWide ==
    /\ pc = "ready"
    /\ Len(delivered) <= MaxDelivered
    /\ \E amt \in (UsizeMax - MaxAmt)..UsizeMax, overflow_checks \in BOOLEAN :
         IF overflow_checks /\ output_pos + amt > UsizeMax
         THEN /\ pc' = "panicked"
              /\ ret' = [kind |-> "panic", bytes |-> <<>>]
              /\ UNCHANGED <<output_pos, delivered>>
         ELSE LET to == ConsumePos(output_pos, amt, output_buf)
              IN  /\ output_pos' = to
                  /\ delivered' = delivered \o SubSeq(output_buf, output_pos + 1, to)
                  /\ ret' = NoRet
                  /\ UNCHANGED pc
    /\ UNCHANGED <<pos, input_buf, output_buf, io_errors>>
    /\ UNCHANGED <<doc, src, suggested, capacity, err, quad, guess, bom_bytes, prebuf,
                   pending, xml_decl, encoding, buf_capacity>>

NextWide == Next \/ ConsumeWide

InitWide == InitDetect(TextDocs \cup LateEolDocs, {NoHint}, {DEFAULT_BUF_SIZE})

\* the stream when the caller may pass consume any amount
SpecWide == InitWide /\ [][NextWide]_vars

----------------------------------------------------------------------------
(* Encoding::encoding_decl_is_compatible on its own: any guess the enum    *)
(* can hold against the name a declaration gives.                          *)

MacRomanLabel == <<109, 97, 99, 45, 114, 111, 109, 97, 110>>

MacCyrillicLabel == <<109, 97, 99, 45, 99, 121, 114, 105, 108, 108, 105, 99>>

\* names a declaration may give: labels of the encodings of the allow-list,
\* the allow-list's own spellings, a multi-byte encoding and an unknown name
CompatLabels ==
    { Utf8Label, Utf8UpperLabel, Utf16Label, Utf16LeLabel, Utf16BeLabel, AsciiLabel,
      Iso88591Label, BogusLabel, MacRomanLabel, MacCyrillicLabel,
      <<119, 105, 110, 100, 111, 119, 115, 45, 49, 50, 53, 50>>,                \* windows-1252
      <<105, 115, 111, 45, 56, 56, 53, 57, 45, 50>>,                            \* iso-8859-2
      <<107, 111, 105, 56, 45, 114>>,                                           \* koi8-r
      <<109, 97, 99, 105, 110, 116, 111, 115, 104>>,                            \* macintosh
      <<120, 45, 109, 97, 99, 45, 114, 111, 109, 97, 110>>,                     \* x-mac-roman
      <<120, 45, 109, 97, 99, 45, 99, 121, 114, 105, 108, 108, 105, 99>>,       \* x-mac-cyrillic
      <<105, 98, 109, 56, 54, 54>>,                                             \* ibm866
      <<103, 98, 107>> }                                                        \* gbk

\* Ascii(bool), Utf8(bool), Utf16Le(bool), Utf16Be(bool)
CompatGuesses == [name : {"ascii", "utf-8", "utf-16le", "utf-16be"}, definitive : BOOLEAN]

\* the name between the quotes after the encoding token (enc_detect.rs 101-121)
DeclaredName(decl) ==
    LET tokens == XmlDeclTokens(decl) IN QuotedName(tokens[EncodingIndex(tokens) + 1])

InitCompat ==
    /\ doc = [text |-> <<>>, enc |-> "none", bom |-> FALSE, raw |-> <<>>]
    /\ src = <<>>
    /\ suggested = NoHint
    /\ capacity = DEFAULT_BUF_SIZE
    /\ pos = 0
    /\ pc = "compat"
    /\ err = "none"
    /\ quad = <<>>
    /\ guess \in CompatGuesses
    /\ bom_bytes = 0
    /\ prebuf = <<>>
    /\ pending = <<>>
    /\ xml_decl \in { DeclWithEncoding(l) : l \in CompatLabels }
    /\ encoding = NoEncoding
    /\ input_buf = <<>>
    /\ buf_capacity = 0
    /\ output_buf = <<>>
    /\ output_pos = 0
    /\ ret = NoRet
    /\ delivered = <<>>
    /\ io_errors = 0

\* enc_detect.rs 302-371, called as at line 126
CheckCompatible ==
    /\ pc = "compat"
    /\ LET c == EncodingDeclIsCompatible(guess, DeclaredName(xml_decl))
       IN  /\ pc' = "compat_done"
           /\ err' = c.err
           /\ ret' = [kind |-> IF ~c.ok THEN "error" ELSE IF c.val THEN "true" ELSE "false",
                      bytes |-> <<>>]
    /\ UNCHANGED <<doc, src, pos, suggested, capacity, quad, guess, bom_bytes, prebuf,
                   pending, xml_decl, encoding>>
    /\ UNCHANGED <<input_buf, buf_capacity, output_buf, output_pos, delivered, io_errors>>

NextCompat == CheckCompatible

SpecCompat == InitCompat /\ [][NextCompat]_vars

----------------------------------------------------------------------------
(* What the claims speak of.                                               *)

StartsWith(s, prefix) == Len(s) >= Len(prefix) /\ SubSeq(s, 1, Len(prefix)) = prefix

\* the BOM rows of the byte-pattern table
IsUtf8Bom(q) == q[1] = 239 /\ q[2] = 187 /\ q[3] = 191

IsUtf16LeBom(q) == q[1] = 255 /\ q[2] = 254 /\ q[3] # 0 /\ q[4] = 0

IsUtf16BeBom(q) == q[1] = 254 /\ q[2] = 255 /\ q[3] = 0 /\ q[4] # 0

IsBomRow(q) == IsUtf8Bom(q) \/ IsUtf16LeBom(q) \/ IsUtf16BeBom(q)

\* the declaration rows: <?xm, and <? in either UTF-16 byte order
IsDeclRow(q) == q \in {<<60, 63, 120, 109>>, <<60, 0, 63, 0>>, <<0, 60, 0, 63>>}

\* signatures of encodings that have no decoder: the UCS-4 byte orders (BOM and
\* '<'), the UTF-EBCDIC BOM, the EBCDIC "<?xm"
NoDecoderSignatures ==
    { <<255, 254, 0, 0>>, <<0, 0, 254, 255>>, <<0, 0, 255, 254>>, <<254, 255, 0, 0>>,
      <<60, 0, 0, 0>>, <<0, 0, 0, 60>>, <<0, 0, 60, 0>>, <<0, 60, 0, 0>>,
      <<221, 115, 102, 115>>, <<76, 111, 167, 148>> }

\* the source starts with no byte-order mark
NoBom(bytes) ==
    /\ ~StartsWith(bytes, <<239, 187, 191>>)
    /\ ~StartsWith(bytes, <<255, 254>>)
    /\ ~StartsWith(bytes, <<254, 255>>)

\* the source does not start with "<?xml" in any of the three encodings
NoDeclaration(bytes) ==
    \A name \in EncodingNames : ~StartsWith(bytes, EncodeText(name, <<60, 63, 120, 109, 108>>))

\* construction has ended
Terminal == pc \in {"detected", "failed"}

\* the names the documents of this model declare
DeclaredLabels ==
    {Utf8Label, <<85, 84, 70, 45, 49, 54>>, Utf16BeLabel, Iso88591Label, BogusLabel}

\* the document starts with <?xml encoding="label"?>
DocDeclares(label) == doc.enc # "none" /\ StartsWith(doc.text, DeclWithEncoding(label))

\* the stream decodes the document with the decoder of the document's encoding
RightDecoder == doc.enc # "none" /\ encoding.name = doc.enc

\* the text holds no line end other than LF
EolFree(text) == \A i \in 1..Len(text) : text[i] \notin {CR, NEL, LS}

\* the caller has consumed everything and the stream has reported the end
AtEof ==
    /\ pc = "ready"
    /\ pos = Len(src)
    /\ input_buf = <<>>
    /\ output_pos = Len(output_buf)
    /\ ret.kind \in {"slice", "read"}
    /\ ret.bytes = <<>>

----------------------------------------------------------------------------
(* The claims.                                                             *)

\* C1: whenever detection succeeds, the bytes consumed from the source are
\* the BOM bytes (if a BOM row matched) followed by the prebuffer, in source
\* order, and the source is positioned at the first byte after them.
C1_ConsumedIsBomThenPrebuf ==
    pc = "detected" =>
        /\ pos <= Len(src)
        /\ bom_bytes > 0 => IsBomRow(Take(src, 4))
        /\ SubSeq(src, 1, pos) = Take(src, bom_bytes) \o prebuf

C1_Witness == pc = "detected" /\ bom_bytes = 2 /\ Len(xml_decl) > Len(XmlDeclPrefix)

\* C2: a document with LF line ends, decoded by the decoder of its encoding,
\* is read to the end without error and the bytes read are the UTF-8 of its
\* text.
C2_RoundTrip ==
    (pc = "ready" /\ RightDecoder /\ EolFree(doc.text)) =>
        /\ ret.kind # "decode_error"
        /\ AtEof => delivered = Utf8Encode(doc.text)

\* C3: the text read to the end is the document's text with every CR LF (and
\* CR NEL) delivered as one LF, wherever the refills cut the text.
C3_SplitCrLfIsOneLf ==
    (AtEof /\ RightDecoder) => delivered = Utf8Encode(NormalizeEol(doc.text))

\* C4: on a well-formed document decoded with the decoder of its encoding no
\* fill ends in a decoding error, wherever the chunks cut the bytes.
C4_SplitCharacterDecodes ==
    (pc = "ready" /\ RightDecoder) => ret.kind # "decode_error"

\* C5: when the guess is not definitive and the declaration names an
\* encoding, detection resolves to the declared encoding.
C5_DeclaredNameWins ==
    \A label \in DeclaredLabels :
        (DocDeclares(label) /\ ~guess.definitive /\ pc = "detected") =>
            encoding.name = ForLabel(label)

\* C6 as stated: with a definitive guess, a declared name that differs from
\* the guess fails with the encoding-conflict error, and one that names the
\* same encoding succeeds with the guess unchanged.
C6_AnyOtherNameConflicts ==
    \A label \in DeclaredLabels :
        (DocDeclares(label) /\ guess.definitive /\ Terminal) =>
            IF ForLabel(label) = guess.name
            THEN pc = "detected" /\ encoding = guess
            ELSE pc = "failed" /\ err = "Incompatible"

\* C6 as amended: with a definitive guess, a declared name that is a label of
\* another encoding fails with the encoding-conflict error, one that is no
\* known label fails with the unrecognized-name error, and one that names the
\* same encoding succeeds with the guess unchanged.
C6_KnownOtherNameConflicts ==
    \A label \in DeclaredLabels :
        (DocDeclares(label) /\ guess.definitive /\ Terminal) =>
            IF ForLabel(label) = guess.name
            THEN pc = "detected" /\ encoding = guess
            ELSE IF ForLabel(label) = "none"
            THEN pc = "failed" /\ err = "UnrecognizedName"
            ELSE pc = "failed" /\ err = "Incompatible"

C6_Witness ==
    /\ DocDeclares(Utf8Label)
    /\ quad = <<255, 254, 60, 0>>
    /\ pc = "failed"
    /\ err = "Incompatible"

\* C7: a quad matching a BOM row is classified UTF-8, UTF-16LE or UTF-16BE,
\* definitive, with BOM width 3, 2 or 2, and the prebuffer begins with the
\* quad bytes after that width.
C7_BomRows ==
    Len(quad) = 4 =>
        /\ IsUtf8Bom(quad) =>
               /\ guess = [name |-> "utf-8", definitive |-> TRUE]
               /\ bom_bytes = 3
               /\ Take(prebuf, 1) = <<quad[4]>>
        /\ IsUtf16LeBom(quad) =>
               /\ guess = [name |-> "utf-16le", definitive |-> TRUE]
               /\ bom_bytes = 2
               /\ Take(prebuf, 2) = <<quad[3], quad[4]>>
        /\ IsUtf16BeBom(quad) =>
               /\ guess = [name |-> "utf-16be", definitive |-> TRUE]
               /\ bom_bytes = 2
               /\ Take(prebuf, 2) = <<quad[3], quad[4]>>

C7_Witness == pc = "quad" /\ quad = <<239, 187, 191, 60>> /\ prebuf = <<60>>

C9_ZeroByteQuadFails ==
    (Len(quad) = 4 /\ (\E i \in 1..4 : quad[i] = 0) /\ ~IsBomRow(quad) /\ ~IsDeclRow(quad)) =>
        /\ pc = "failed"
        /\ err = "UnsupportedMultibyte"
        /\ encoding = NoEncoding

C9_Witness ==
    /\ quad = <<60, 0, 65, 0>>
    /\ suggested.some
    /\ pc = "failed"
    /\ err = "UnsupportedMultibyte"

\* C10: an input that starts with the signature of an encoding that has no
\* decoder never yields a successful detection, with or without a suggested
\* encoding.
C10_NoDecoderSignatureFails ==
    (Len(quad) = 4 /\ quad \in NoDecoderSignatures) => pc # "detected"

\* C11: of the quads that match no BOM row, 3C 3F 78 6D is guessed UTF-8 not
\* definitive, 3C 00 3F 00 UTF-16LE definitive, 00 3C 00 3F UTF-16BE
\* definitive (the declaration rows come before the 00-byte row), and every
\* quad with no 00 byte UTF-8 not definitive; all with BOM width 0, so the
\* whole quad opens the prebuffer.
C11_DeclAndDefaultRows ==
    (Len(quad) = 4 /\ ~IsBomRow(quad)) =>
        /\ quad = <<60, 63, 120, 109>> =>
               guess = [name |-> "utf-8", definitive |-> FALSE]
        /\ quad = <<60, 0, 63, 0>> =>
               guess = [name |-> "utf-16le", definitive |-> TRUE]
        /\ quad = <<0, 60, 0, 63>> =>
               guess = [name |-> "utf-16be", definitive |-> TRUE]
        /\ (\A i \in 1..4 : quad[i] # 0) =>
               guess = [name |-> "utf-8", definitive |-> FALSE]
        /\ (IsDeclRow(quad) \/ \A i \in 1..4 : quad[i] # 0) =>
               /\ pc # "start"
               /\ bom_bytes = 0
               /\ Take(prebuf, 4) = quad

C11_Witness ==
    /\ pc = "quad"
    /\ quad = <<0, 60, 0, 63>>
    /\ guess = [name |-> "utf-16be", definitive |-> TRUE]
    /\ prebuf = quad

\* the names new_from_name turns into an Encoding
DecodeTargets == {"ascii", "utf-8", "utf-16le", "utf-16be"}

\* the bytes after the BOM are enough for the prefix read and are not the
\* start of a declaration
NoDeclarationAfterBom ==
    /\ guess.name # "none"
    /\ Len(src) - bom_bytes >= XmlDeclPrefixWidth(guess)
    /\ NoDeclaration(Drop(src, bom_bytes))

DocDeclaresNoEncoding == doc.enc # "none" /\ StartsWith(doc.text, DeclPlain)

\* C14: when the declaration has no token `encoding`, detection returns the
\* quad guess with its definitive flag unchanged, whatever encoding is
\* suggested.
C14_GuessStandsWithoutEncodingToken ==
    (Terminal /\ DocDeclaresNoEncoding) =>
        /\ pc = "detected"
        /\ encoding = guess
        /\ encoding.name = doc.enc
        /\ encoding.definitive = (doc.bom \/ doc.enc # "utf-8")

C14_Witness ==
    /\ DocDeclaresNoEncoding
    /\ suggested = Hint(Utf16LeLabel)
    /\ pc = "detected"
    /\ encoding = [name |-> "utf-8", definitive |-> FALSE]

\* the text opens a declaration that is not closed when it has grown past
\* XML_DECL_CAP characters
UnclosedPastCap(text) ==
    /\ Len(text) > XML_DECL_CAP
    /\ StartsWith(text, XmlDeclPrefix)
    /\ \A i \in 1..XML_DECL_CAP : SubSeq(text, i, i + 1) # XmlDeclEnd

\* C15: a declaration that has grown past 256 characters without ending in
\* ?> makes detection fail with the malformed-input error; detection never
\* succeeds on such input.
C15_UnclosedDeclarationFails ==
    (doc.enc # "none" /\ UnclosedPastCap(doc.text)) =>
        /\ pc # "detected"
        /\ pc = "failed" => err = "InvalidXml"
        /\ Len(xml_decl) <= XML_DECL_CAP + 1

C15_Witness ==
    /\ UnclosedPastCap(doc.text)
    /\ EndsWith(doc.text, XmlDeclEnd)
    /\ Len(xml_decl) = XML_DECL_CAP + 1
    /\ pc = "failed"
    /\ err = "InvalidXml"

\* C16: when the token after `encoding` does not start with a quote, or
\* starts with one that does not recur in the token, detection fails with the
\* malformed-declaration error, whether or not the guess is definitive.
C16_UnquotedValueFails ==
    (Terminal /\ doc.enc # "none" /\ doc.text \in {DeclUnquoted, DeclUnterminated}) =>
        pc = "failed" /\ err = "UnquotedValue"

\* the stream is being constructed by the call c
CalledAs(c) == suggested = c.suggested /\ capacity = c.capacity

\* C17: on an input of at least six bytes with no BOM, not starting with
\* "<?xml " and with no 00 among its first four bytes, new succeeds and the
\* stream decodes as UTF-8.
C17_NewAssumesUtf8 ==
    ( /\ Terminal
      /\ CalledAs(XmlReadBufferNew) \/ CalledAs(ReaderNew)
      /\ Len(src) >= 6
      /\ NoBom(src)
      /\ ~StartsWith(src, XmlDeclPrefix)
      /\ \A i \in 1..4 : src[i] # 0 ) =>
        pc = "detected" /\ encoding.name = "utf-8"

\* C18: new_from_name succeeds exactly when the name resolves, whatever its
\* case, to one of the decode targets, and then returns that encoding with the
\* flag it was given; any other name fails with the unsupported-encoding
\* error.  Seen where the suggested encoding is resolved: UTF-8 in upper case
\* succeeds, iso-8859-1 (a legacy code page), ascii (which the label table
\* resolves to windows-1252) and an unknown name fail; the flag FALSE is seen
\* in the guess for a quad of ASCII bytes.
C18_NewFromNameTargets ==
    /\ (Len(quad) = 4 /\ \A i \in 1..4 : quad[i] # 0 /\ quad[i] < 128) =>
           guess = [name |-> "utf-8", definitive |-> FALSE]
    /\ (Terminal /\ NoDeclarationAfterBom /\ ~guess.definitive /\ suggested.some) =>
           /\ (pc = "detected") = (ForLabel(suggested.name) \in DecodeTargets)
           /\ pc = "detected" =>
                  encoding = [name |-> ForLabel(suggested.name), definitive |-> TRUE]
           /\ pc = "failed" => err = "UnsupportedEncoding" /\ encoding = NoEncoding
           /\ suggested.name \in {Utf8Label, Utf8UpperLabel} =>
                  pc = "detected" /\ encoding.name = "utf-8"
           /\ suggested.name = Utf16LeLabel => pc = "detected" /\ encoding.name = "utf-16le"
           /\ suggested.name = Utf16BeLabel => pc = "detected" /\ encoding.name = "utf-16be"
           /\ suggested.name \in {Iso88591Label, AsciiLabel, BogusLabel} => pc = "failed"

C18_Witness ==
    /\ NoDeclarationAfterBom
    /\ ~guess.definitive
    /\ suggested = Hint(Utf8UpperLabel)
    /\ pc = "detected"
    /\ encoding = [name |-> "utf-8", definitive |-> TRUE]

\* the reference pass over one chunk: an LF or NEL that follows a CR is left
\* out, every other CR, LF, NEL and LS becomes LF, every other character stays
RefDropped(chars, i) == chars[i] \in {LF, NEL} /\ i > 1 /\ chars[i - 1] = CR

RefPiece(chars, i) ==
    IF RefDropped(chars, i) THEN <<>>
    ELSE IF chars[i] \in {CR, LF, NEL, LS} THEN <<LF>>
    ELSE <<chars[i]>>

\* the pieces of the characters lo..hi, in order
RECURSIVE RefEolRange(_, _, _)
RefEolRange(chars, lo, hi) ==
    IF lo > hi THEN <<>>
    ELSE IF lo = hi THEN RefPiece(chars, lo)
    ELSE LET mid == (lo + hi) \div 2
         IN  RefEolRange(chars, lo, mid) \o RefEolRange(chars, mid + 1, hi)

RefEol(chars) == RefEolRange(chars, 1, Len(chars))

\* C19: every fill that decodes a chunk leaves in the output buffer the
\* reference end-of-line pass over that chunk's text: CR gives LF, an LF or
\* NEL right after a CR gives nothing, any other LF, NEL or LS gives LF, every
\* other character is unchanged.
C19_EolMatchesReference ==
    [][ ( /\ pc = "ready"
          /\ output_pos >= Len(output_buf)
          /\ ret'.kind \in {"slice", "read"} ) =>
        LET chunk == IF input_buf = <<>> THEN SubSeq(src, pos + 1, pos') ELSE input_buf
        IN  output_buf' = Utf8Encode(RefEol(DecodeStrict(encoding.name, chunk).chars)) ]_vars

\* < CR CR LF LS NEL has been decoded in one chunk: < LF LF LF LF
C19_Witness ==
    /\ doc.text = <<60, CR, CR, LF, LS, NEL>>
    /\ Len(prebuf) = Len(src) - bom_bytes
    /\ pc = "ready"
    /\ ret.kind = "slice"
    /\ output_buf = <<60, LF, LF, LF, LF>>

\* C20: end-of-line normalization leaves the text it has produced unchanged.
C20_EolIdempotent ==
    (pc = "ready" /\ ret.kind \in {"slice", "read"}) =>
        LET produced == DecodeStrict("utf-8", output_buf).chars
        IN  /\ Utf8Encode(produced) = output_buf
            /\ NormalizeEol(produced) = produced

\* < CR LF LF CR NEL has been decoded in one chunk: < LF LF LF
C20_Witness ==
    /\ doc.text = <<60, CR, LF, LF, CR, NEL>>
    /\ pc = "ready"
    /\ ret.kind = "slice"
    /\ output_buf = <<60, LF, LF, LF>>
    /\ NormalizeEol(<<60, LF, LF, LF>>) = <<60, LF, LF, LF>>

\* a call of fill_buf or read (consume returns nothing)
FillReturned == pc = "ready" /\ ret'.kind # "none"

\* the bytes a fill decodes when it refills: the buffer if it holds any, else
\* what the pull returned
RefillChunk == IF input_buf # <<>> THEN input_buf ELSE SubSeq(src, pos + 1, pos')

Refills == output_pos >= Len(output_buf)

\* the bytes are not a whole number of well-formed characters of the encoding
Malformed(name, bytes) ==
    LET d == DecodeBytes(name, bytes) IN d.status # "ok" \/ d.rest # <<>>

\* U+FFFD as UTF-8
ReplacementCharacter == <<239, 191, 189>>

Contains(bytes, piece) ==
    \E i \in 1..(Len(bytes) - Len(piece) + 1) : SubSeq(bytes, i, i + Len(piece) - 1) = piece

\* C21: a fill whose chunk is malformed for the resolved decoder returns the
\* decoding error and leaves the decoded buffer, the cursor and the delivered
\* text as they were; the decoded buffer never holds a replacement character
C21_MalformedChunkFails ==
    /\ [](~Contains(output_buf, ReplacementCharacter))
    /\ [][(FillReturned /\ Refills /\ Malformed(encoding.name, RefillChunk))
            => (ret'.kind = "decode_error"
                /\ UNCHANGED <<output_buf, output_pos, delivered>>)]_vars

\* a fill has failed on a chunk that holds an ill-formed sequence after some
\* well-formed text
C21_Witness ==
    /\ pc = "ready"
    /\ ret.kind = "decode_error"
    /\ DecodeBytes(encoding.name, input_buf).status # "ok"
    /\ DecodeBytes(encoding.name, input_buf).chars # <<>>
    /\ delivered # <<>>

\* the stream as construction leaves it: the prebuffer waits in the input
\* buffer and nothing has been decoded
BeforeFirstFill ==
    pc = "ready" /\ input_buf = prebuf /\ output_buf = <<>> /\ delivered = <<>>

\* C22: the first fill after construction pulls nothing from the source and
\* delivers the normalized decoding of the prebuffer (stated for a well-formed
\* document read with its own decoder)
C22_FirstFillDeliversPrebuffer ==
    [][(BeforeFirstFill /\ RightDecoder /\ FillReturned)
         => (/\ pos' = pos
             /\ ret'.kind # "decode_error"
             /\ output_buf' = Utf8Encode(RefEol(DecodeBytes(encoding.name, prebuf).chars)))]_vars

\* C23: a fill called while decoded text remains returns exactly that text,
\* pulls nothing and changes no state of the stream; a fill that follows a
\* fill with no consume between them returns the same slice
C23_FillWithTextRemainingIsIdle ==
    /\ [][(pc = "ready" /\ output_pos < Len(output_buf) /\ ret'.kind = "slice")
            => (/\ ret'.bytes = Drop(output_buf, output_pos)
                /\ UNCHANGED <<pos, input_buf, output_buf, output_pos, delivered>>)]_vars
    /\ [][(pc = "ready" /\ ret.kind = "slice" /\ ret'.kind = "slice")
            => ret'.bytes = ret.bytes]_vars

\* a fill has returned the text that was left after a partial consume
C23_Witness ==
    /\ pc = "ready"
    /\ ret.kind = "slice"
    /\ output_pos > 0
    /\ output_pos < Len(output_buf)
    /\ ret.bytes = Drop(output_buf, output_pos)
    /\ delivered # <<>>

\* a call of consume
ConsumeReturned == pc = "ready" /\ ret'.kind = "none"

AllowListSpellings ==
    { AsciiLabel, Utf8Label, Iso88591Label, MacRomanLabel, MacCyrillicLabel,
      <<119, 105, 110, 100, 111, 119, 115, 45, 49, 50, 53, 50>>,
      <<105, 115, 111, 45, 56, 56, 53, 57, 45, 50>>,
      <<107, 111, 105, 56, 45, 114>>,
      <<105, 98, 109, 56, 54, 54>> }

\* the declared name is one the claim speaks of: a label the library knows or
\* a name of the allow-list
NameSpokenOf(label) == ForLabel(label) # "none" \/ Lower(label) \in AllowListSpellings

\* the declared name is in the allow-list, itself or as the canonical name it
\* stands for
InAllowList(label) == Lower(label) \in AllowListSpellings \/ ForLabel(label) \in SingleByteNames

\* what the claim says encoding_decl_is_compatible returns
CompatExpected(enc, label) ==
    IF ForLabel(label) = enc.name THEN "true"
    ELSE IF enc.definitive THEN "false"
    ELSE IF enc.name \in {"utf-8", "ascii"}
    THEN (IF InAllowList(label) THEN "true" ELSE "false")
    ELSE "error"

\* C25: encoding_decl_is_compatible returns true for identical names, false for
\* a definitive guess with another name, true exactly for the names of the
\* allow-list when the guess is non-definitive UTF-8 or ASCII, and the
\* cannot-determine error for any other combination
C25_CompatibilityTable ==
    (pc = "compat_done" /\ NameSpokenOf(DeclaredName(xml_decl)))
        => /\ ret.kind = CompatExpected(guess, DeclaredName(xml_decl))
           /\ (ret.kind = "error" => err = "CannotDetermine")

\* what the source holds after the BOM, decoded as a whole with the guess
BodyDecoded == DecodeBytes(guess.name, Drop(src, bom_bytes))

\* the decoded source opens with <?xml and a whitespace character
OpensDeclaration ==
    LET chars == BodyDecoded.chars
    IN  /\ Len(chars) >= Len(XmlDeclPrefix)
        /\ Take(chars, 5) = Take(XmlDeclPrefix, 5)
        /\ IsWhitespace(chars[6])

\* the source ends before a step has the bytes it needs: the quad, the
\* declaration prefix, or the scan for ?> (which nothing else stops first)
SourceEndsEarly ==
    \/ Len(src) < 4
    \/ /\ guess.name # "none"
       /\ \/ Len(src) < bom_bytes + XmlDeclPrefixWidth(guess)
          \/ /\ OpensDeclaration
             /\ BodyDecoded.status = "ok"
             /\ ~Contains(BodyDecoded.chars, XmlDeclEnd)
             /\ StrLen(BodyDecoded.chars) <= XML_DECL_CAP

\* C26: detection fails with source exhaustion exactly when the source ends
\* before the four bytes of the quad, before BOM width + 6 x character width
\* bytes, or during the declaration scan before ?>
C26_ExhaustionExactlyWhenShort ==
    Terminal => ((err = "UnexpectedEof") <=> SourceEndsEarly)

\* a BOM-marked declaration was cut off inside the scan
C26_Witness ==
    /\ pc = "failed"
    /\ err = "UnexpectedEof"
    /\ bom_bytes > 0
    /\ Len(xml_decl) > Len(XmlDeclPrefix)
    /\ pos = Len(src)

\* C27: whenever the raw input buffer holds bytes to decode, they are bytes of
\* the source, the ones read last: the prebuffer or what the most recent
\* successful pull returned, and never bytes that were not read
C27_InputBufHoldsSourceBytes ==
    (pc = "ready" /\ input_buf # <<>>)
        => /\ Len(input_buf) <= pos
           /\ input_buf = SubSeq(src, pos - Len(input_buf) + 1, pos)

\* the source has returned zero bytes and nothing decoded is left
Exhausted == pc = "ready" /\ pos = Len(src) /\ input_buf = <<>> /\ Refills

\* C28: a fill returns an empty slice only when the pull returned zero bytes;
\* a non-empty chunk that decodes never normalizes to empty text; and once the
\* source is exhausted every later fill returns empty
C28_EmptyOnlyAtEndOfSource ==
    /\ [][(FillReturned /\ ret'.kind # "decode_error" /\ ret'.bytes = <<>>)
            => (Refills /\ input_buf = <<>> /\ pos = Len(src) /\ pos' = pos)]_vars
    /\ [][(FillReturned /\ Refills /\ RefillChunk # <<>> /\ ret'.kind # "decode_error")
            => (output_buf' # <<>> /\ ret'.bytes # <<>>)]_vars
    /\ [][(Exhausted /\ FillReturned)
            => (ret'.kind # "decode_error" /\ ret'.bytes = <<>> /\ Exhausted')]_vars

\* a fill has returned empty after the whole of <a/> e-acute CR LF z was
\* delivered
C28_Witness ==
    /\ Exhausted
    /\ ret.kind = "slice"
    /\ ret.bytes = <<>>
    /\ RightDecoder
    /\ Len(delivered) > 0
    /\ delivered[Len(delivered)] = 122

\* the input buffer holds a chunk that the resolved decoder rejects
HoldsBadChunk == pc = "ready" /\ input_buf # <<>> /\ Malformed(encoding.name, input_buf)

\* C29: after a fill has failed with a decoding error the stream stays as it
\* is: every later fill fails with the decoding error on the same raw bytes,
\* nothing more is pulled, and the cursor, the decoded buffer and the
\* delivered text do not change
C29_DecodeErrorIsSticky ==
    /\ []((pc = "ready" /\ ret.kind = "decode_error") => (HoldsBadChunk /\ Refills))
    /\ [][(HoldsBadChunk /\ Refills)
            => (/\ UNCHANGED <<input_buf, pos, output_buf, output_pos, delivered>>
                /\ (ret'.kind # "none" => ret'.kind = "decode_error"))]_vars

\* a fill has failed after some text was delivered, with source left unread
C29_Witness ==
    /\ pc = "ready"
    /\ ret.kind = "decode_error"
    /\ input_buf # <<>>
    /\ delivered # <<>>
    /\ pos < Len(src)

\* where the first ?> of a text ends, 0 if it has none
FirstCloseEnd(chars) ==
    LET ends == { i \in 2..Len(chars) : SubSeq(chars, i - 1, i) = XmlDeclEnd }
    IN  IF ends = {} THEN 0 ELSE CHOOSE i \in ends : \A j \in ends : i <= j

\* C30: on success with a declaration the bytes consumed end with those of the
\* first ?> of the document, and the declaration string is the text up to it;
\* on success without a declaration exactly BOM width + 6 x character width
\* bytes have been consumed
C30_ConsumesNoMoreThanNeeded ==
    pc = "detected"
        => IF OpensDeclaration
           THEN LET decl == Take(BodyDecoded.chars, FirstCloseEnd(BodyDecoded.chars))
                IN  /\ FirstCloseEnd(BodyDecoded.chars) > 0
                    /\ xml_decl = decl
                    /\ pos = bom_bytes + Len(EncodeText(guess.name, decl))
           ELSE pos = bom_bytes + Len(XmlDeclPrefix) * GetCharWidth(guess)

\* a BOM-marked document with a declaration and a second ?> after it was
\* detected, the second ?> left unread
C30_Witness ==
    /\ pc = "detected"
    /\ OpensDeclaration
    /\ bom_bytes > 0
    /\ EndsWith(xml_decl, XmlDeclEnd)
    /\ pos < Len(src)
    /\ pos = bom_bytes + Len(prebuf)
    /\ doc.text = TwoCloseText

\* the prebuffer decodes to <?xml followed by a whitespace character
PrefixIsDeclaration ==
    LET chars == DecodeBytes(guess.name, prebuf).chars
    IN  /\ Len(chars) >= Len(XmlDeclPrefix)
        /\ Take(chars, 5) = Take(XmlDeclPrefix, 5)
        /\ IsWhitespace(chars[6])

\* C31: has_xml_decl is true exactly when the first six characters decoded
\* from the prebuffer with the guessed decoder are <?xml and a whitespace
\* character
C31_HasDeclarationExactly ==
    pc = "prefix" => (HasXmlDecl(guess, prebuf).has <=> PrefixIsDeclaration)

\* the document opens with a declaration whose ?> lies within its first
\* XML_DECL_CAP characters
ClosesWithinCap(text) ==
    /\ StartsWith(text, XmlDeclPrefix)
    /\ FirstCloseEnd(text) \in 1..XML_DECL_CAP

RejectedByCap == pc = "failed" /\ err = "InvalidXml"

\* C32: the cap counts decoded characters and applies only to unclosed scans:
\* a declaration that closes within its first 256 characters is never
\* rejected by the cap, and a scan is rejected only when the declaration string
\* is longer than 256 characters and does not end with ?>
C32_CapCountsCharacters ==
    /\ (doc.enc # "none" /\ ClosesWithinCap(doc.text)) => ~RejectedByCap
    /\ RejectedByCap => (Len(xml_decl) > XML_DECL_CAP /\ ~EndsWith(xml_decl, XmlDeclEnd))

\* the declaration string without its last character
AllButLast(chars) == SubSeq(chars, 1, Len(chars) - 1)

\* the most a scan reads: it stops at the push that takes the declaration
\* string past the cap, and a character is at most four bytes of UTF-8
ConsumedWithinBound ==
    /\ StrLen(AllButLast(xml_decl)) <= XML_DECL_CAP
    /\ pos - bom_bytes <= GetCharWidth(guess) * (XML_DECL_CAP + 4)

\* C33: detection always returns, success or failure, and has then consumed
\* a bounded number of bytes, whether or not the source goes on
C33_DetectionTerminates == <>(Terminal /\ ConsumedWithinBound)

\* a scan gave up at the cap with source left unread
C33_Witness ==
    /\ pc = "failed"
    /\ err = "InvalidXml"
    /\ pos < Len(src)
    /\ UnclosedPastCap(doc.text)
    /\ ~Contains(doc.text, XmlDeclEnd)


\* the line ends XML 1.1 has translated to LF, as they are spelt in UTF-8
RawLineEnds == { Utf8Encode(<<c>>) : c \in {CR, NEL, LS} }

HasRawLineEnd(bytes) == \E piece \in RawLineEnds : Contains(bytes, piece)

\* C34: neither the decoded buffer, nor what a call hands back, nor the text
\* delivered so far ever holds CR, NEL or LS, however the fills cut the source
C34_OnlyLineFeeds ==
    /\ ~HasRawLineEnd(output_buf)
    /\ ~HasRawLineEnd(ret.bytes)
    /\ ~HasRawLineEnd(delivered)

\* the three forms, met in fills after the first, have all been delivered as LF
C34_Witness ==
    /\ doc.text = LateEolText
    /\ pc = "ready"
    /\ delivered = <<60, 97, 47, 62, 122, 122, LF, LF, LF, 122>>


\* a call of consume, whether or not it returns
ConsumeCalled == pc = "ready" /\ ret'.kind \in {"none", "panic"}

\* C35: whatever the amount, up to usize::MAX, consume leaves the cursor where
\* it was or further on, and never past the end of the decoded buffer
C35_ConsumeNeverWraps ==
    [][ConsumeCalled => (output_pos' >= output_pos /\ output_pos' <= Len(output_buf))]_vars

=============================================================================
